---- MODULE Spec2Model ----
(***************************************************************************)
(* Model of app.py (painel_previsao_CGCLIMA): asset resolution (PNG        *)
(* rasters, classification GeoJSON layers, facility GeoJSON layers),       *)
(* GeoJSON parsing and the three Dash callbacks.                           *)
(*                                                                         *)
(* File names are sequences of one-character strings, so that glob         *)
(* matching, the date regex, strptime and the ordering of sorted() are     *)
(* computed on characters as the code computes them.                       *)
(***************************************************************************)
EXTENDS Integers, Sequences, FiniteSets, TLC

VARIABLES
    camadasExiste,  \* CAMADAS_DIR.exists()
    dirCamadas,     \* listing of BASE_DIR/camadas_geojson, in scandir order
    dirBase,        \* listing of BASE_DIR (files only), in scandir order
    unidades,       \* content of BASE_DIR/{upa,ubs,ubsi}.geojson, or Ausente
    conteudoCamada, \* content of the classification GeoJSON files
    DATAS,          \* the module global DATAS, computed at import
    fase,           \* "ocioso" (waiting for a request) or "retornou"
    chamada,        \* the request being served
    retorno         \* what the served request returned (or the exception raised)

vars == <<camadasExiste, dirCamadas, dirBase, unidades, conteudoCamada, DATAS,
          fase, chamada, retorno>>

\* what serving a request leaves alone: the files and the module globals
fixos == <<camadasExiste, dirCamadas, dirBase, unidades, conteudoCamada, DATAS>>

-----------------------------------------------------------------------------
(* Bounds of the model *)

\* most files present in camadas_geojson and BASE_DIR together
MaxArquivos == 2

\* most features of a GeoJSON file
MaxFeats == 2

-----------------------------------------------------------------------------
(* Characters and strings *)

\* the characters that occur in the modelled names, in code-point order
CharOrder ==
    << "-", ".", "0", "1", "2", "3", "4", "5", "6", "7", "8", "9", "N", "_",
       "a", "b", "c", "d", "e", "f", "g", "h", "i", "j", "k", "l", "m",
       "n", "o", "p", "q", "r", "s", "t", "u", "v", "w", "x", "y", "z" >>

Ord(c) == CHOOSE i \in 1..Len(CharOrder) : CharOrder[i] = c

Digits == <<"0", "1", "2", "3", "4", "5", "6", "7", "8", "9">>

IsDigit(c) == \E i \in 1..10 : Digits[i] = c

DigitVal(c) == (CHOOSE i \in 1..10 : Digits[i] = c) - 1

\* Python's None, as a value comparable with strings
None == <<"<None>">>

\* truthiness of a str | None value
Truthy(s) == s # None /\ s # <<>>

\* a < b for sequences of integers (Python's ordering of lists and strings)
RECURSIVE LexLess(_, _)
LexLess(a, b) ==
    IF b = <<>> THEN FALSE
    ELSE IF a = <<>> THEN TRUE
    ELSE IF Head(a) # Head(b) THEN Head(a) < Head(b)
    ELSE LexLess(Tail(a), Tail(b))

Codes(s) == [i \in 1..Len(s) |-> Ord(s[i])]

\* sorted(xs, key=...) on a sequence of [key, val] records: a stable
\* insertion sort, which yields the order Python's stable sort yields
RECURSIVE InsertByKey(_, _)
InsertByKey(sorted, x) ==
    IF sorted = <<>> THEN <<x>>
    ELSE IF LexLess(x.key, sorted[Len(sorted)].key)
         THEN Append(InsertByKey(SubSeq(sorted, 1, Len(sorted) - 1), x),
                     sorted[Len(sorted)])
         ELSE Append(sorted, x)

RECURSIVE SortByKey(_)
SortByKey(xs) ==
    IF xs = <<>> THEN <<>>
    ELSE InsertByKey(SortByKey(SubSeq(xs, 1, Len(xs) - 1)), xs[Len(xs)])

Vals(xs) == [i \in 1..Len(xs) |-> xs[i].val]

-----------------------------------------------------------------------------
(* Dates: strftime/strptime with "%Y-%m-%d" *)

Pad2(n) == <<Digits[(n \div 10) + 1], Digits[(n % 10) + 1]>>

Pad4(n) == Pad2(n \div 100) \o Pad2(n % 100)

\* the ISO text of the date <<y, m, d>>
DateISO(dt) == Pad4(dt[1]) \o <<"-">> \o Pad2(dt[2]) \o <<"-">> \o Pad2(dt[3])

Num2(s, i) == 10 * DigitVal(s[i]) + DigitVal(s[i + 1])

IsLeap(y) == (y % 4 = 0 /\ y % 100 # 0) \/ y % 400 = 0

DaysIn(y, m) ==
    IF m = 2 THEN (IF IsLeap(y) THEN 29 ELSE 28)
    ELSE IF m \in {4, 6, 9, 11} THEN 30 ELSE 31

\* s matches \d{4}-\d{2}-\d{2} at position i
DateShapeAt(s, i) ==
    /\ i + 9 <= Len(s)
    /\ \A k \in {0, 1, 2, 3, 5, 6, 8, 9} : IsDigit(s[i + k])
    /\ s[i + 4] = "-"
    /\ s[i + 7] = "-"

ValueError == <<"ValueError">>

\* datetime.strptime(s, "%Y-%m-%d"): the date <<y, m, d>>, or ValueError
\* (every date text of the model has its ten characters)
strptime(s) ==
    IF Len(s) = 10 /\ DateShapeAt(s, 1)
    THEN LET y == 100 * Num2(s, 1) + Num2(s, 3)
             m == Num2(s, 6)
             d == Num2(s, 9)
         IN IF y >= 1 /\ m \in 1..12 /\ d >= 1 /\ d <= DaysIn(y, m)
            THEN <<y, m, d>>
            ELSE ValueError
    ELSE ValueError

-----------------------------------------------------------------------------
(* Paths and globbing *)

s_geojson == <<".", "g", "e", "o", "j", "s", "o", "n">>
s_png == <<".", "p", "n", "g">>
s_prec == <<"p", "r", "e", "c">>
s_tmin == <<"t", "m", "i", "n">>
s_tmax == <<"t", "m", "a", "x">>
s_tmed == <<"t", "m", "e", "d">>
s_prec_acum == s_prec \o <<"_", "a", "c", "u", "m">>
s_ecmwf == <<"e", "c", "m", "w", "f", "_">>
s_camadas_geojson ==
    <<"c", "a", "m", "a", "d", "a", "s", "_", "g", "e", "o", "j", "s", "o", "n">>

\* fnmatch of a name against a pattern whose only wildcard is "*"
RECURSIVE FnMatch(_, _)
FnMatch(pat, s) ==
    IF pat = <<>> THEN s = <<>>
    ELSE IF Head(pat) = "*"
         THEN FnMatch(Tail(pat), s) \/ (s # <<>> /\ FnMatch(pat, Tail(s)))
         ELSE s # <<>> /\ Head(s) = Head(pat) /\ FnMatch(Tail(pat), Tail(s))

\* the candidate directories, in order
CAMADAS_FALLBACK_DIRS == <<"camadas", "base">>

\* d.exists(): BASE_DIR holds app.py itself
DirExists(d) == IF d = "camadas" THEN camadasExiste ELSE TRUE

Listing(d) == IF d = "camadas" THEN dirCamadas ELSE dirBase

Path(d, name) == [dir |-> d, name |-> name]

\* p.exists()
PathExists(p) ==
    DirExists(p.dir) /\ \E i \in 1..Len(Listing(p.dir)) : Listing(p.dir)[i] = p.name

\* list(d.glob(pattern)): the matching entries, in scandir order
Glob(d, pattern) ==
    LET hit(n) == FnMatch(pattern, n)
        names == SelectSeq(Listing(d), hit)
    IN [i \in 1..Len(names) |-> Path(d, names[i])]

\* the key by which Path objects compare: their parts below BASE_DIR, one
\* after the other (0 separates parts and sorts before every character)
PathKey(p) ==
    IF p.dir = "camadas"
    THEN Codes(s_camadas_geojson) \o <<0>> \o Codes(p.name)
    ELSE Codes(p.name)

\* sorted(paths)
SortedPaths(ps) ==
    Vals(SortByKey([i \in 1..Len(ps) |-> [key |-> PathKey(ps[i]), val |-> ps[i]]]))

-----------------------------------------------------------------------------
(* Results of calls: a value, or the exception that escaped *)

Ok(v) == [tipo |-> "ok", valor |-> v]

Raise(e) == [tipo |-> "raise", exc |-> e]

\* a Path | None result
SomePath(p) == [tipo |-> "path", path |-> p]

NonePath == [tipo |-> "None"]

-----------------------------------------------------------------------------
(* Variables of the forecast *)

\* Python's None as a variable key
NoneKey == "None"

VAR_OPCOES == {"prec", "tmin", "tmax", "tmed", "prec_acum"}

\* f"{var_key}"
Str(var_key) ==
    CASE var_key = "prec" -> s_prec
      [] var_key = "tmin" -> s_tmin
      [] var_key = "tmax" -> s_tmax
      [] var_key = "tmed" -> s_tmed
      [] var_key = "prec_acum" -> s_prec_acum
      [] var_key = NoneKey -> <<"N", "o", "n", "e">>

\* VAR_OPCOES[var_key]["prefix"]
Prefix(var_key) ==
    IF var_key = "prec_acum"
    THEN s_ecmwf \o s_prec \o <<"_", "a", "c", "u", "m", "u", "l", "a", "d", "a", "_">>
    ELSE s_ecmwf \o Str(var_key) \o <<"_">>

-----------------------------------------------------------------------------
(* Classification layers: caminho_camadas_previsao and its helpers *)

\* the first YYYY-MM-DD of the name when it is a real date, else None
_parse_date_from_name(name) ==
    LET at == {i \in 1..Len(name) : DateShapeAt(name, i)}
    IN IF at = {} THEN None
       ELSE LET i == CHOOSE k \in at : \A j \in at : k <= j
                di == SubSeq(name, i, i + 9)
            IN IF strptime(di) = ValueError THEN None ELSE di

\* cands += list(d.glob(pattern)) over the existing candidate directories
RECURSIVE GlobDirs(_, _)
GlobDirs(dirs, pattern) ==
    IF dirs = <<>> THEN <<>>
    ELSE (IF DirExists(Head(dirs)) THEN Glob(Head(dirs), pattern) ELSE <<>>)
         \o GlobDirs(Tail(dirs), pattern)

_latest_file_in_dirs(pattern) ==
    LET cands == SortedPaths(GlobDirs(CAMADAS_FALLBACK_DIRS, pattern))
    IN IF cands # <<>> THEN SomePath(cands[Len(cands)]) ELSE NonePath

\* step 1 of _best_match_date_file: the exact name, directory by directory
RECURSIVE ExactIn(_, _)
ExactIn(dirs, name) ==
    IF dirs = <<>> THEN NonePath
    ELSE IF PathExists(Path(Head(dirs), name)) THEN SomePath(Path(Head(dirs), name))
    ELSE ExactIn(Tail(dirs), name)

\* step 2: the last of the sorted names holding the date, in the first
\* directory that has one
RECURSIVE ContainsDateIn(_, _)
ContainsDateIn(dirs, pattern) ==
    IF dirs = <<>> THEN NonePath
    ELSE LET hits == IF DirExists(Head(dirs))
                     THEN SortedPaths(Glob(Head(dirs), pattern))
                     ELSE <<>>
         IN IF hits # <<>> THEN SomePath(hits[Len(hits)])
            ELSE ContainsDateIn(Tail(dirs), pattern)

\* all_files of steps 3/4: both globs of every existing directory
RECURSIVE AllFiles(_, _)
AllFiles(dirs, var_key) ==
    IF dirs = <<>> THEN <<>>
    ELSE (IF DirExists(Head(dirs))
          THEN Glob(Head(dirs), Str(var_key) \o <<"_", "*">> \o s_geojson)
               \o Glob(Head(dirs), Str(var_key) \o <<"*">> \o s_geojson)
          ELSE <<>>)
         \o AllFiles(Tail(dirs), var_key)

\* dated: the files whose name carries a date, with that date
Dated(all_files) ==
    LET has(p) == _parse_date_from_name(p.name) # None
        ps == SelectSeq(all_files, has)
    IN [i \in 1..Len(ps) |->
           [key |-> strptime(_parse_date_from_name(ps[i].name)), val |-> ps[i]]]

\* DateFallback without its "if not dated: return None": dated[-1] of an
\* empty list raises IndexError
DateFallback_semGuarda(var_key, target) ==
    LET dated == SortByKey(Dated(AllFiles(CAMADAS_FALLBACK_DIRS, var_key)))
        isLeq(x) == ~LexLess(target, x.key)
        leq == SelectSeq(dated, isLeq)
    IN IF leq # <<>> THEN Ok(SomePath(leq[Len(leq)].val))
       ELSE IF dated = <<>> THEN Raise("IndexError")
       ELSE Ok(SomePath(dated[Len(dated)].val))

\* steps 3/4: the latest date <= target, else the latest date
DateFallback(var_key, target) ==
    LET dated == SortByKey(Dated(AllFiles(CAMADAS_FALLBACK_DIRS, var_key)))
        isLeq(x) == ~LexLess(target, x.key)
        leq == SelectSeq(dated, isLeq)
    IN IF dated = <<>> THEN Ok(NonePath)
       ELSE IF leq # <<>> THEN Ok(SomePath(leq[Len(leq)].val))
       ELSE Ok(SomePath(dated[Len(dated)].val))

_best_match_date_file(var_key, data_iso) ==
    LET exact == ExactIn(CAMADAS_FALLBACK_DIRS,
                         Str(var_key) \o <<"_">> \o data_iso \o s_geojson)
        hit == ContainsDateIn(CAMADAS_FALLBACK_DIRS,
                   Str(var_key) \o <<"*">> \o data_iso \o <<"*">> \o s_geojson)
        target == strptime(data_iso)
    IN IF exact # NonePath THEN Ok(exact)
       ELSE IF hit # NonePath THEN Ok(hit)
       ELSE IF target = ValueError THEN Raise("ValueError")
       ELSE DateFallback(var_key, target)

caminho_camadas_previsao(var_key, data_iso) ==
    IF var_key = "prec_acum"
    THEN Ok(_latest_file_in_dirs(s_prec_acum \o <<"_", "*">> \o s_geojson))
    ELSE IF ~Truthy(data_iso) THEN Ok(NonePath)
    ELSE _best_match_date_file(var_key, data_iso)

-----------------------------------------------------------------------------
(* The request loop shared by the specifications *)

SemChamada == [op |-> "nenhuma"]

SemRetorno == [tipo |-> "nenhum"]

\* file contents that the specification at hand does not read
Ausente == [tipo |-> "ausente"]

SemUnidades == [k \in {"upa", "ubs", "ubsi"} |-> Ausente]

\* the response is delivered and the next request awaited
Proxima ==
    /\ fase = "retornou"
    /\ fase' = "ocioso"
    /\ chamada' = SemChamada
    /\ retorno' = SemRetorno
    /\ UNCHANGED fixos

\* the listings of at most n distinct names of S
Listagens(S, n) ==
    {l \in UNION {[1..k -> S] : k \in 0..n} :
        \A i, j \in 1..Len(l) : i # j => l[i] # l[j]}

-----------------------------------------------------------------------------
(* Specification of the classification-layer lookup *)

\* the dates requests are made for
DatasPedidas == {<<2025, 11, 1>>, <<2025, 11, 5>>, <<2025, 11, 10>>}

NomeCamada(key, dt) == key \o <<"_">> \o DateISO(dt) \o s_geojson

NomeAcum(de, ate) ==
    s_prec_acum \o <<"_">> \o DateISO(de) \o <<"_", "a", "_">> \o DateISO(ate)
    \o s_geojson

\* the GeoJSON names a directory may hold: daily layers, accumulated-period
\* layers, a name with an impossible date, a name with no date, and a name
\* that only starts with a variable key
NomesCamadas ==
    { NomeCamada(s_prec, <<2025, 11, 5>>),
      NomeCamada(s_prec, <<2025, 11, 10>>),
      NomeCamada(s_prec, <<2025, 11, 12>>),
      NomeCamada(s_tmin, <<2025, 11, 5>>),
      NomeCamada(s_prec, <<2025, 13, 45>>),
      s_prec \o <<"_", "n", "o", "v", "o">> \o s_geojson,
      s_prec \o <<"i", "p", "_">> \o DateISO(<<2025, 11, 8>>) \o s_geojson,
      NomeAcum(<<2025, 10, 1>>, <<2025, 10, 10>>),
      NomeAcum(<<2025, 11, 1>>, <<2025, 11, 10>>) }

InitCamadas ==
    /\ camadasExiste \in BOOLEAN
    /\ dirCamadas \in Listagens(NomesCamadas, MaxArquivos)
    /\ dirBase \in Listagens(NomesCamadas, MaxArquivos)
    /\ Len(dirCamadas) + Len(dirBase) <= MaxArquivos
    /\ ~camadasExiste => dirCamadas = <<>>
    /\ unidades = SemUnidades
    /\ conteudoCamada = Ausente
    /\ DATAS = <<>>
    /\ fase = "ocioso"
    /\ chamada = SemChamada
    /\ retorno = SemRetorno

ChamarCaminhoCamadas ==
    /\ fase = "ocioso"
    /\ \E var_key \in VAR_OPCOES, data_iso \in {DateISO(d) : d \in DatasPedidas} \cup {None} :
          /\ chamada' = [op |-> "caminho_camadas_previsao",
                         var_key |-> var_key, data_iso |-> data_iso]
          /\ retorno' = caminho_camadas_previsao(var_key, data_iso)
    /\ fase' = "retornou"
    /\ UNCHANGED fixos

NextCamadas == ChamarCaminhoCamadas \/ Proxima

SpecCamadas == InitCamadas /\ [][NextCamadas]_vars

-----------------------------------------------------------------------------
(* Properties of the classification-layer lookup *)

Retornou(op) == fase = "retornou" /\ chamada.op = op

\* the paths of the existing candidate directories
Presentes ==
    {Path("base", dirBase[i]) : i \in 1..Len(dirBase)}
    \cup (IF camadasExiste
          THEN {Path("camadas", dirCamadas[i]) : i \in 1..Len(dirCamadas)}
          ELSE {})

\* the name carries, somewhere, a YYYY-MM-DD that is a real date
CarregaData(name) ==
    \E i \in 1..Len(name) :
        DateShapeAt(name, i) /\ strptime(SubSeq(name, i, i + 9)) # ValueError

\* the {var_key}_* files whose embedded date is parsable and <= the date asked
CandidatosAte(var_key, data_iso) ==
    {p \in Presentes :
        /\ FnMatch(Str(var_key) \o <<"_", "*">>, p.name)
        /\ _parse_date_from_name(p.name) # None
        /\ ~LexLess(strptime(data_iso), strptime(_parse_date_from_name(p.name)))}

SemExato(var_key, data_iso) ==
    \A p \in Presentes : p.name # Str(var_key) \o <<"_">> \o data_iso \o s_geojson

\* C2: a dated request with no exact file, but with {var_key}_* files dated
\* on or before the requested date, returns one of those whose embedded date
\* is the latest of them.
C2_FallbackMaxLeq ==
    (/\ Retornou("caminho_camadas_previsao")
     /\ chamada.var_key # "prec_acum"
     /\ chamada.data_iso # None
     /\ SemExato(chamada.var_key, chamada.data_iso)
     /\ CandidatosAte(chamada.var_key, chamada.data_iso) # {})
    => LET cs == CandidatosAte(chamada.var_key, chamada.data_iso)
           dt(p) == strptime(_parse_date_from_name(p.name))
       IN \E p \in cs :
             /\ retorno = Ok(SomePath(p))
             /\ \A q \in cs : ~LexLess(dt(p), dt(q))

\* a file that can answer the request: for the accumulated variant a
\* prec_acum_*.geojson, for a dated variant a {var_key}*.geojson with a date
Correspondentes(var_key) ==
    {p \in Presentes :
        IF var_key = "prec_acum"
        THEN FnMatch(s_prec_acum \o <<"_", "*">> \o s_geojson, p.name)
        ELSE FnMatch(Str(var_key) \o <<"*">> \o s_geojson, p.name)
             /\ CarregaData(p.name)}

C10_AcumNewestAcrossDirs ==
    (Retornou("caminho_camadas_previsao") /\ chamada.var_key = "prec_acum")
    => LET cs == Correspondentes("prec_acum")
       IN IF cs = {} THEN retorno = Ok(NonePath)
          ELSE \E p \in cs :
                  /\ retorno = Ok(SomePath(p))
                  /\ \A q \in cs : ~LexLess(Codes(p.name), Codes(q.name))

\* the {var_key}_* files whose name carries a parsable date
Candidatos(var_key) ==
    {p \in Presentes :
        /\ FnMatch(Str(var_key) \o <<"_", "*">>, p.name)
        /\ _parse_date_from_name(p.name) # None}

\* a dated request that no exact file and no candidate dated on or before
\* the requested date answers
SemExatoNemAnterior ==
    /\ Retornou("caminho_camadas_previsao")
    /\ chamada.var_key # "prec_acum"
    /\ chamada.data_iso # None
    /\ SemExato(chamada.var_key, chamada.data_iso)
    /\ CandidatosAte(chamada.var_key, chamada.data_iso) = {}

\* C11: a dated request with no exact file and no candidate dated on or
\* before the requested date does not raise and, when the variable has
\* candidates at all, returns the one of the latest embedded date of all
\* candidate directories; names that carry no parsable date are no candidates.
C11_NoEarlierReturnsLatest ==
    SemExatoNemAnterior
    => /\ retorno.tipo = "ok"
       /\ LET cs == Candidatos(chamada.var_key)
              dt(p) == strptime(_parse_date_from_name(p.name))
          IN cs # {} => \E p \in cs :
                           /\ retorno = Ok(SomePath(p))
                           /\ \A q \in cs : ~LexLess(dt(p), dt(q))

\* the name is {var_key}_{YYYY-MM-DD}...: the key, "_", then a date
NomeDaVariavel(var_key, name) ==
    /\ Len(name) > Len(Str(var_key))
    /\ SubSeq(name, 1, Len(Str(var_key)) + 1) = Str(var_key) \o <<"_">>
    /\ DateShapeAt(name, Len(Str(var_key)) + 2)

\* C14: the file a dated request resolves to is named {var_key}_{YYYY-MM-DD}...
\* for the variable requested, and is no prec_acum_*.geojson.
C14_NeverAnotherLayer ==
    (/\ Retornou("caminho_camadas_previsao")
     /\ chamada.var_key # "prec_acum"
     /\ chamada.data_iso # None
     /\ retorno.tipo = "ok"
     /\ retorno.valor # NonePath)
    => /\ NomeDaVariavel(chamada.var_key, retorno.valor.path.name)
       /\ ~FnMatch(s_prec_acum \o <<"_", "*">> \o s_geojson, retorno.valor.path.name)

-----------------------------------------------------------------------------
(* Rasters: carregar_imagem_base64 *)

\* the data URI of the PNG at a path; "" when there is none
Imagem(p) == [tipo |-> "data:image/png;base64", path |-> p]

Vazio == [tipo |-> ""]

\* a dated raster falls back to the newest PNG of the variable when the
\* day's PNG is missing
carregar_imagem_base64_maisRecente(var_key, data_iso) ==
    LET candidates == SortedPaths(Glob("base", Prefix(var_key) \o <<"*">> \o s_png))
    IN IF var_key # "prec_acum" /\ data_iso = None THEN Vazio
       ELSE IF var_key # "prec_acum"
               /\ PathExists(Path("base", Prefix(var_key) \o data_iso \o s_png))
            THEN Imagem(Path("base", Prefix(var_key) \o data_iso \o s_png))
       ELSE IF candidates = <<>> THEN Vazio
       ELSE Imagem(candidates[Len(candidates)])

carregar_imagem_base64(var_key, data_iso) ==
    IF var_key = "prec_acum"
    THEN LET candidates ==
                 SortedPaths(Glob("base", Prefix(var_key) \o <<"*">> \o s_png))
         IN IF candidates = <<>> THEN Vazio
            ELSE Imagem(candidates[Len(candidates)])
    ELSE IF data_iso = None THEN Vazio
    ELSE LET img_path == Path("base", Prefix(var_key) \o data_iso \o s_png)
         IN IF ~PathExists(img_path) THEN Vazio ELSE Imagem(img_path)

NomePNG(var_key, dt) == Prefix(var_key) \o DateISO(dt) \o s_png

NomePNGAcum(de, ate) ==
    Prefix("prec_acum") \o DateISO(de) \o <<"_", "a", "_">> \o DateISO(ate) \o s_png

\* the PNG names BASE_DIR may hold
NomesPNG ==
    { NomePNG("prec", <<2025, 11, 1>>),
      NomePNG("prec", <<2025, 11, 5>>),
      NomePNG("prec", <<2025, 11, 10>>),
      NomePNG("tmin", <<2025, 11, 5>>),
      NomePNG("tmax", <<2025, 11, 12>>),
      NomePNG("tmed", <<2025, 11, 5>>),
      NomePNGAcum(<<2025, 10, 1>>, <<2025, 10, 10>>),
      NomePNGAcum(<<2025, 11, 1>>, <<2025, 11, 10>>) }

InitRaster ==
    /\ camadasExiste = TRUE
    /\ dirCamadas = <<>>
    /\ dirBase \in Listagens(NomesPNG, MaxArquivos)
    /\ unidades = SemUnidades
    /\ conteudoCamada = Ausente
    /\ DATAS = <<>>
    /\ fase = "ocioso"
    /\ chamada = SemChamada
    /\ retorno = SemRetorno

ChamarCarregarImagem ==
    /\ fase = "ocioso"
    /\ \E var_key \in VAR_OPCOES, data_iso \in {DateISO(d) : d \in DatasPedidas} \cup {None} :
          /\ chamada' = [op |-> "carregar_imagem_base64",
                         var_key |-> var_key, data_iso |-> data_iso]
          /\ retorno' = carregar_imagem_base64(var_key, data_iso)
    /\ fase' = "retornou"
    /\ UNCHANGED fixos

NextRaster == ChamarCarregarImagem \/ Proxima

SpecRaster == InitRaster /\ [][NextRaster]_vars

\* C1: a dated raster request returns the PNG named prefix + date + ".png"
\* when BASE_DIR holds it and the empty result otherwise, whatever other
\* PNGs are present.
C1_DatedRasterExactOrEmpty ==
    (Retornou("carregar_imagem_base64") /\ chamada.var_key # "prec_acum")
    => LET nome == Prefix(chamada.var_key) \o chamada.data_iso \o s_png
       IN IF chamada.data_iso # None /\ \E i \in 1..Len(dirBase) : dirBase[i] = nome
          THEN retorno = Imagem(Path("base", nome))
          ELSE retorno = Vazio

\* the day's PNG is missing while another PNG of the same variable is there,
\* and the result is empty
C1_Witness ==
    /\ Retornou("carregar_imagem_base64")
    /\ chamada.var_key = "prec"
    /\ chamada.data_iso = DateISO(<<2025, 11, 10>>)
    /\ \A i \in 1..Len(dirBase) : dirBase[i] # NomePNG("prec", <<2025, 11, 10>>)
    /\ \E i \in 1..Len(dirBase) : dirBase[i] = NomePNG("prec", <<2025, 11, 5>>)
    /\ retorno = Vazio

-----------------------------------------------------------------------------
(* JSON values, as json.load builds them *)

JNull == [t |-> "null"]
JInt(i) == [t |-> "int", i |-> i]
\* a float, held in tenths: JFloat(-466) is -46.6
JFloat(d) == [t |-> "float", d |-> d]
JStr(s) == [t |-> "str", s |-> s]
JList(xs) == [t |-> "list", xs |-> xs]
\* a dict: kv maps the keys present to their values
JDict(kv) == [t |-> "dict", kv |-> kv]

EmptyDict == JDict(<<>>)

\* d.get(k, default) of a dict d
Get(d, k, default) == IF k \in DOMAIN d.kv THEN d.kv[k] ELSE default

\* bool(v)
JTruthy(v) ==
    CASE v.t = "null" -> FALSE
      [] v.t = "int" -> v.i # 0
      [] v.t = "float" -> v.d # 0
      [] v.t = "str" -> v.s # <<>>
      [] v.t = "list" -> v.xs # <<>>
      [] v.t = "dict" -> DOMAIN v.kv # {}

\* a file: absent, not parsable as JSON, or holding a JSON value
Invalido == [tipo |-> "invalido"]

Texto(json) == [tipo |-> "json", json |-> json]

\* digits of s from position i on, as a number; -1 when a non-digit occurs
RECURSIVE DigitsVal(_, _, _)
DigitsVal(s, i, acc) ==
    IF i > Len(s) THEN acc
    ELSE IF ~IsDigit(s[i]) THEN -1
    ELSE DigitsVal(s, i + 1, 10 * acc + DigitVal(s[i]))

\* s without leading and trailing blanks
RECURSIVE Strip(_)
Strip(s) ==
    IF s = <<>> THEN s
    ELSE IF Head(s) = " " THEN Strip(Tail(s))
    ELSE IF s[Len(s)] = " " THEN Strip(SubSeq(s, 1, Len(s) - 1))
    ELSE s

\* int(v): the integer, or the exception raised
int(v) ==
    CASE v.t = "int" -> Ok(v.i)
      [] v.t = "float" -> Ok(IF v.d >= 0 THEN v.d \div 10 ELSE -((-v.d) \div 10))
      [] v.t = "str" ->
           LET b == Strip(v.s)
               neg == b # <<>> /\ Head(b) = "-"
               body == IF b # <<>> /\ Head(b) \in {"-", "+"} THEN Tail(b) ELSE b
               n == IF body = <<>> THEN -1 ELSE DigitsVal(body, 1, 0)
           IN IF n < 0 THEN Raise("ValueError")
              ELSE Ok(IF neg THEN -n ELSE n)
      [] OTHER -> Raise("TypeError")

-----------------------------------------------------------------------------
(* Classification polygons: carregar_geojson_poligonos_por_classe *)

\* _ord reading the key "order" where the files carry "ordem"
_ord_order(ft) ==
    IF ft.t # "dict" THEN 0
    ELSE LET props == Get(ft, "properties", JNull)
             d == IF JTruthy(props) THEN props ELSE EmptyDict
         IN IF d.t # "dict" THEN 0
            ELSE LET r == int(Get(d, "order", JInt(0)))
                 IN IF r.tipo = "raise" THEN 0 ELSE r.valor

\* the sort key: int(properties.ordem), 0 on any exception
_ord(ft) ==
    IF ft.t # "dict" THEN 0
    ELSE LET props == Get(ft, "properties", JNull)
             d == IF JTruthy(props) THEN props ELSE EmptyDict
         IN IF d.t # "dict" THEN 0
            ELSE LET r == int(Get(d, "ordem", JInt(0)))
                 IN IF r.tipo = "raise" THEN 0 ELSE r.valor

\* sorted(feats, key=_ord)
SortedFeats(feats) ==
    Vals(SortByKey([i \in 1..Len(feats) |->
                       [key |-> <<_ord(feats[i])>>, val |-> feats[i]]]))

\* path_geojson is None, a path with no file, or a path whose file has the
\* given content
carregar_geojson_poligonos_por_classe(path_geojson, content) ==
    IF path_geojson = NonePath \/ ~PathExists(path_geojson.path) THEN Ok(<<>>)
    ELSE IF content.tipo = "invalido" THEN Raise("JSONDecodeError")
    ELSE IF content.json.t # "dict" THEN Raise("AttributeError")
    ELSE LET got == Get(content.json, "features", JList(<<>>))
             feats == IF JTruthy(got) THEN got ELSE JList(<<>>)
         IN \* a truthy "features" that is no list is a number in this model
            IF feats.t # "list" THEN Raise("TypeError")
            ELSE Ok(SortedFeats(feats.xs))

\* the sequences of at most n elements of S
SeqsAte(S, n) == UNION {[1..k -> S] : k \in 0..n}

\* stands for a key that the dict does not hold
SemChave == [t |-> "sem chave"]

s_MultiPolygon == <<"M", "u", "l", "t", "i", "P", "o", "l", "y", "g", "o", "n">>

\* a class feature with the given label and properties.ordem
FeatClasse(label, ordem) ==
    LET base == [label |-> JStr(<<label>>), hex |-> JStr(<<"#", "9", "9", "9">>)]
    IN JDict([properties |->
                 JDict(IF ordem = SemChave THEN base
                       ELSE [label |-> base.label, hex |-> base.hex, ordem |-> ordem]),
              geometry |-> JDict([type |-> JStr(s_MultiPolygon)])])

\* the values of properties.ordem: absent, integers, a float (1.5), strings
\* that int() accepts and rejects, null
Ordens ==
    { SemChave, JInt(0), JInt(1), JInt(2), JFloat(15),
      JStr(<<"1">>), JStr(<<" ", "2">>), JStr(<<"x">>), JNull }

FeatsClasse ==
    {FeatClasse(l, o) : l \in {"a", "b"}, o \in Ordens}
    \cup {JDict([properties |-> JNull]), JStr(<<"a">>)}

ConteudosClasse ==
    {Texto(JDict([features |-> JList(fs)])) : fs \in SeqsAte(FeatsClasse, MaxFeats)}
    \cup {Texto(JDict([features |-> JNull])), Texto(JDict([type |-> JStr(<<"x">>)])),
          Texto(JList(<<>>)), Invalido}

ArquivoCamada == NomeCamada(s_prec, <<2025, 11, 5>>)

InitPoligonos ==
    /\ camadasExiste = TRUE
    /\ dirCamadas = <<ArquivoCamada>>
    /\ dirBase = <<>>
    /\ unidades = SemUnidades
    /\ conteudoCamada \in ConteudosClasse
    /\ DATAS = <<>>
    /\ fase = "ocioso"
    /\ chamada = SemChamada
    /\ retorno = SemRetorno

ChamarCarregarPoligonos ==
    /\ fase = "ocioso"
    /\ \E p \in {NonePath, SomePath(Path("camadas", ArquivoCamada)),
                 SomePath(Path("base", ArquivoCamada))} :
          /\ chamada' = [op |-> "carregar_geojson_poligonos_por_classe", path |-> p]
          /\ retorno' = carregar_geojson_poligonos_por_classe(p, conteudoCamada)
    /\ fase' = "retornou"
    /\ UNCHANGED fixos

NextPoligonos == ChamarCarregarPoligonos \/ Proxima

SpecPoligonos == InitPoligonos /\ [][NextPoligonos]_vars

\* the order the claim gives a feature: its integer ordem, 0 when the
\* property is absent or is no integer
OrdemInteira(ft) ==
    IF ft.t = "dict" /\ "properties" \in DOMAIN ft.kv
       /\ ft.kv["properties"].t = "dict"
       /\ "ordem" \in DOMAIN ft.kv["properties"].kv
       /\ int(ft.kv["properties"].kv["ordem"]).tipo = "ok"
    THEN int(ft.kv["properties"].kv["ordem"]).valor
    ELSE 0

\* the features of the file that was parsed
FeatsDoArquivo == conteudoCamada.json.kv["features"].xs

LeuFeatures ==
    /\ Retornou("carregar_geojson_poligonos_por_classe")
    /\ chamada.path = SomePath(Path("camadas", ArquivoCamada))
    /\ conteudoCamada.tipo = "json"
    /\ conteudoCamada.json.t = "dict"
    /\ "features" \in DOMAIN conteudoCamada.json.kv
    /\ conteudoCamada.json.kv["features"].t = "list"

\* C4: the parse returns the features of the file, each once, ascending by
\* integer ordem (0 when absent or not an integer), features of equal ordem
\* in their order in the file.
C4_SortedStable ==
    LeuFeatures
    => /\ retorno.tipo = "ok"
       /\ Len(retorno.valor) = Len(FeatsDoArquivo)
       /\ \E pi \in [1..Len(FeatsDoArquivo) -> 1..Len(FeatsDoArquivo)] :
             /\ \A i, j \in DOMAIN pi : i # j => pi[i] # pi[j]
             /\ \A i \in DOMAIN pi : retorno.valor[i] = FeatsDoArquivo[pi[i]]
             /\ \A i, j \in DOMAIN pi :
                   i < j =>
                     \/ OrdemInteira(retorno.valor[i]) < OrdemInteira(retorno.valor[j])
                     \/ /\ OrdemInteira(retorno.valor[i]) = OrdemInteira(retorno.valor[j])
                        /\ pi[i] < pi[j]

\* a file whose first two features are out of order was parsed, and the
\* second came out first
C4_Witness ==
    /\ LeuFeatures
    /\ Len(FeatsDoArquivo) >= 2
    /\ OrdemInteira(FeatsDoArquivo[1]) > OrdemInteira(FeatsDoArquivo[2])
    /\ retorno.tipo = "ok"
    /\ retorno.valor[1] = FeatsDoArquivo[2]

-----------------------------------------------------------------------------
(* Facility points: carregar_geojson_points and construir_mapa_unidades *)

s_Point == <<"P", "o", "i", "n", "t">>
s_MultiPoint == <<"M", "u", "l", "t", "i">> \o s_Point
s_Polygon == <<"P", "o", "l", "y", "g", "o", "n">>

\* the keys of GEOJSON_FILES; the file of key k is BASE_DIR/k.geojson
GEOJSON_FILES == {"upa", "ubs", "ubsi"}

\* GEOJSON_FILES.get(camada_key): the path (named by its key), or None
GeojsonFile(camada_key) == IF camada_key \in GEOJSON_FILES THEN camada_key ELSE NoneKey

\* the layer keys of the model and their str.upper() and str.lower()
Camadas == {"upa", "ubs", "ubsi", "UBS", "Upa"}

Upper(k) ==
    CASE k \in {"upa", "Upa"} -> "UPA"
      [] k \in {"ubs", "UBS"} -> "UBS"
      [] k = "ubsi" -> "UBSI"

Lower(k) ==
    CASE k \in {"upa", "Upa"} -> "upa"
      [] k \in {"ubs", "UBS"} -> "ubs"
      [] k = "ubsi" -> "ubsi"

\* the chain written as nested defaults, props.get(k1, props.get(k2, ... "")):
\* the first key present wins, whatever its value
RECURSIVE FirstTruthy_presente(_, _)
FirstTruthy_presente(props, keys) ==
    IF keys = <<>> THEN JStr(<<>>)
    ELSE IF Head(keys) \in DOMAIN props.kv THEN props.kv[Head(keys)]
    ELSE FirstTruthy_presente(props, Tail(keys))

\* props.get(k1) or props.get(k2) or ... or ""
RECURSIVE FirstTruthy(_, _)
FirstTruthy(props, keys) ==
    IF keys = <<>> THEN JStr(<<>>)
    ELSE IF JTruthy(Get(props, Head(keys), JNull)) THEN Get(props, Head(keys), JNull)
    ELSE FirstTruthy(props, Tail(keys))

\* one row of customdata
Registro(camada, props, lon, lat) ==
    [ camada |-> Upper(camada),
      nome |-> FirstTruthy(props, <<"nm_fantasia", "NM_FANTASIA", "nome_da_es",
                                    "NOME_DA_ES", "nome", "NOME">>),
      cnes |-> FirstTruthy(props, <<"cd_cnes", "CD_CNES", "cnes", "CNES">>),
      cd_mun |-> FirstTruthy(props, <<"cd_mun", "CD_MUN", "cod_mun", "COD_MUN">>),
      dsei |-> FirstTruthy(props, <<"dsei", "DSEI">>),
      polo |-> FirstTruthy(props, <<"polo_base", "POLO_BASE">>),
      cod_polo |-> FirstTruthy(props, <<"cod_polo", "COD_POLO">>),
      lat |-> lat,
      lon |-> lon ]

Skip == [tipo |-> "continue"]

\* len(v) of a truthy JSON value: a number has none
JLen(v) ==
    CASE v.t = "list" -> Len(v.xs)
      [] v.t = "str" -> Len(v.s)
      [] v.t = "dict" -> Cardinality(DOMAIN v.kv)
      [] OTHER -> -1

\* v[i] of a list or a string (0-based)
JItem(v, i) == IF v.t = "list" THEN v.xs[i + 1] ELSE JStr(<<v.s[i + 1]>>)

\* the body of the loop for one feature: a row, continue, or an exception
ParseFeature(ft, camada) ==
    IF ft.t # "dict" THEN Raise("AttributeError")
    ELSE
      LET geom == Get(ft, "geometry", EmptyDict)
          got == Get(ft, "properties", EmptyDict)
          props == IF JTruthy(got) THEN got ELSE EmptyDict
      IN IF geom.t # "dict" THEN Raise("AttributeError")
         ELSE IF Get(geom, "type", JNull) # JStr(s_Point) THEN Skip
         ELSE
           LET coords == Get(geom, "coordinates", JNull)
           IN IF ~JTruthy(coords) THEN Skip
              ELSE IF JLen(coords) < 0 THEN Raise("TypeError")
              ELSE IF JLen(coords) < 2 THEN Skip
              ELSE IF coords.t = "dict" THEN Raise("KeyError")
              ELSE IF props.t # "dict" THEN Raise("AttributeError")
              ELSE Ok(Registro(camada, props, JItem(coords, 0), JItem(coords, 1)))

\* the loop over feats, from feature i on, with the rows gathered so far
RECURSIVE ParseFeats(_, _, _, _)
ParseFeats(feats, i, camada, custom) ==
    IF i > Len(feats) THEN Ok(custom)
    ELSE LET r == ParseFeature(feats[i], camada)
         IN IF r.tipo = "raise" THEN r
            ELSE IF r.tipo = "continue" THEN ParseFeats(feats, i + 1, camada, custom)
            ELSE ParseFeats(feats, i + 1, camada, Append(custom, r.valor))

\* the three lists returned, from the rows
Listas(custom) ==
    [ lats |-> [i \in 1..Len(custom) |-> custom[i].lat],
      lons |-> [i \in 1..Len(custom) |-> custom[i].lon],
      custom |-> custom ]

\* caminho is the key of a GEOJSON_FILES entry, or None
carregar_geojson_points(caminho, camada) ==
    IF caminho = NoneKey THEN Raise("AttributeError")
    ELSE IF unidades[caminho] = Ausente THEN Ok(Listas(<<>>))
    ELSE IF unidades[caminho].tipo = "invalido" THEN Raise("JSONDecodeError")
    ELSE LET gj == unidades[caminho].json
         IN IF gj.t # "dict" THEN Raise("AttributeError")
            ELSE LET feats == Get(gj, "features", JList(<<>>))
                 IN \* a "features" that is no list is null in this model
                    IF feats.t # "list" THEN Raise("TypeError")
                    ELSE LET r == ParseFeats(feats.xs, 1, camada, <<>>)
                         IN IF r.tipo = "raise" THEN r ELSE Ok(Listas(r.valor))

IsNumber(v) == v.t \in {"int", "float"}

\* a figure: its layout images, its animation frames, its traces and what
\* its title is made from
Fig(images, frames, traces, titulo) ==
    [images |-> images, frames |-> frames, traces |-> traces, titulo |-> titulo]

\* the Scattermapbox trace of a point layer
Pontos(camada_key, custom) == [tipo |-> "Scattermapbox", camada |-> camada_key,
                               custom |-> custom]

construir_mapa_unidades(camada_key) ==
    LET r == carregar_geojson_points(GeojsonFile(camada_key), camada_key)
    IN IF r.tipo = "raise" THEN r
       ELSE IF r.valor.custom # <<>>
            THEN \* sum(lats), sum(lons)
                 IF \E i \in 1..Len(r.valor.custom) :
                       ~IsNumber(r.valor.lats[i]) \/ ~IsNumber(r.valor.lons[i])
                 THEN Raise("TypeError")
                 ELSE Ok(Fig(<<>>, <<>>, <<Pontos(camada_key, r.valor.custom)>>,
                            <<Upper(camada_key)>>))
            ELSE Ok(Fig(<<>>, <<>>, <<>>, <<Upper(camada_key)>>))

-----------------------------------------------------------------------------
(* Specification of the facility-point parse *)

\* -46.6 and -23.5 as text
s_lon == <<"-", "4", "6", ".", "6">>
s_lat == <<"-", "2", "3", ".", "5">>

FeatPonto(tipo, coords, props) ==
    JDict([type |-> JStr(<<"F">>),
           geometry |-> JDict([type |-> JStr(tipo), coordinates |-> coords]),
           properties |-> props])

\* the features a facility file may hold: points with numeric, textual,
\* short and out-of-range coordinates, points with several aliases of an
\* attribute (empty, zero and null values among them), a multi-point, a
\* polygon, a feature with no geometry, a feature that is no object
FeatsPonto ==
    { FeatPonto(s_Point, JList(<<JFloat(-466), JFloat(-235)>>),
                JDict([nm_fantasia |-> JStr(<<"a">>), cd_cnes |-> JInt(7)])),
      FeatPonto(s_Point, JList(<<JStr(s_lon), JStr(s_lat)>>),
                JDict([NOME |-> JStr(<<"b">>)])),
      FeatPonto(s_Point, JList(<<JFloat(2000), JFloat(950)>>),
                JDict([nm_fantasia |-> JStr(<<>>), nome |-> JStr(<<"c">>)])),
      FeatPonto(s_Point, JList(<<JFloat(-470), JFloat(-240)>>),
                JDict([nm_fantasia |-> JStr(<<"g">>), nome |-> JStr(<<"h">>),
                       cd_cnes |-> JInt(0), CNES |-> JInt(9), DSEI |-> JNull])),
      FeatPonto(s_Point, JList(<<JFloat(-466)>>), EmptyDict),
      FeatPonto(s_Point, JList(<<JInt(-60), JInt(-3), JInt(0)>>), JNull),
      FeatPonto(s_MultiPoint,
                JList(<<JList(<<JFloat(-466), JFloat(-235)>>),
                        JList(<<JFloat(-470), JFloat(-240)>>)>>),
                JDict([NM_FANTASIA |-> JStr(<<"d">>), nome |-> JStr(<<"e">>)])),
      FeatPonto(s_Polygon, JList(<<>>), EmptyDict),
      JDict([type |-> JStr(<<"F">>), geometry |-> JNull, properties |-> EmptyDict]),
      JStr(<<"f">>) }

ConteudosPonto ==
    {Texto(JDict([features |-> JList(fs)])) : fs \in SeqsAte(FeatsPonto, MaxFeats)}
    \cup {Texto(JDict([features |-> JNull])), Texto(JDict([type |-> JStr(<<"x">>)])),
          Texto(JList(<<>>)), Invalido}

InitPontos ==
    /\ camadasExiste = TRUE
    /\ dirCamadas = <<>>
    /\ dirBase = <<>>
    /\ \E k \in GEOJSON_FILES, c \in ConteudosPonto \cup {Ausente} :
          unidades = [SemUnidades EXCEPT ![k] = c]
    /\ conteudoCamada = Ausente
    /\ DATAS = <<>>
    /\ fase = "ocioso"
    /\ chamada = SemChamada
    /\ retorno = SemRetorno

\* the parse as construir_mapa_unidades and construir_mapa_sobreposicao call it
ChamarCarregarPontos ==
    /\ fase = "ocioso"
    /\ \E camada \in Camadas :
          /\ chamada' = [op |-> "carregar_geojson_points", camada |-> camada]
          /\ retorno' = carregar_geojson_points(GeojsonFile(camada), camada)
    /\ fase' = "retornou"
    /\ UNCHANGED fixos

ChamarMapaUnidades ==
    /\ fase = "ocioso"
    /\ \E camada \in Camadas :
          /\ chamada' = [op |-> "construir_mapa_unidades", camada |-> camada]
          /\ retorno' = construir_mapa_unidades(camada)
    /\ fase' = "retornou"
    /\ UNCHANGED fixos

NextPontos == ChamarCarregarPontos \/ ChamarMapaUnidades \/ Proxima

SpecPontos == InitPontos /\ [][NextPontos]_vars

-----------------------------------------------------------------------------
(* Properties of the facility-point parse *)

\* the features of the facility file read for the key k, when it has a list
TemFeatures(k) ==
    /\ k \in GEOJSON_FILES
    /\ unidades[k].tipo = "json"
    /\ unidades[k].json.t = "dict"
    /\ "features" \in DOMAIN unidades[k].json.kv
    /\ unidades[k].json.kv["features"].t = "list"

FeatsDe(k) == unidades[k].json.kv["features"].xs

\* C5: a key in another casing (UBS for ubs.geojson) loads the points of the
\* file exactly as the lower-case key does.
C5_CaseInsensitiveKey ==
    (/\ Retornou("carregar_geojson_points")
     /\ carregar_geojson_points(Lower(chamada.camada), Lower(chamada.camada)).tipo = "ok"
     /\ carregar_geojson_points(Lower(chamada.camada),
                                Lower(chamada.camada)).valor.custom # <<>>)
    => retorno = carregar_geojson_points(Lower(chamada.camada), Lower(chamada.camada))

\* a feature the parse is specified for: an object with a geometry object
\* and properties that are an object or null
BemFormada(ft) ==
    /\ ft.t = "dict"
    /\ Get(ft, "geometry", JNull).t = "dict"
    /\ Get(ft, "properties", JNull).t \in {"dict", "null"}

PropsDe(ft) ==
    IF Get(ft, "properties", JNull).t = "dict" THEN ft.kv["properties"] ELSE EmptyDict

\* the rows the claim gives one feature: one for a Point with a coordinate
\* pair, one per coordinate pair for a MultiPoint, none otherwise
RowsEsperadas(ft, camada) ==
    LET geom == ft.kv["geometry"]
        tipo == Get(geom, "type", JNull)
        coords == Get(geom, "coordinates", JNull)
    IN IF tipo = JStr(s_Point) /\ coords.t = "list" /\ Len(coords.xs) >= 2
       THEN <<Registro(camada, PropsDe(ft), coords.xs[1], coords.xs[2])>>
       ELSE IF tipo = JStr(s_MultiPoint) /\ coords.t = "list"
       THEN [i \in 1..Len(coords.xs) |->
                Registro(camada, PropsDe(ft), coords.xs[i].xs[1], coords.xs[i].xs[2])]
       ELSE <<>>

RECURSIVE TodasRowsEsperadas(_, _)
TodasRowsEsperadas(feats, camada) ==
    IF feats = <<>> THEN <<>>
    ELSE RowsEsperadas(Head(feats), camada) \o TodasRowsEsperadas(Tail(feats), camada)

\* C6: a MultiPoint of n coordinate pairs yields n rows with the same
\* property fields, in source order; a Point yields one row; any other
\* geometry none.
C6_MultiPointExpands ==
    (/\ Retornou("carregar_geojson_points")
     /\ TemFeatures(chamada.camada)
     /\ \A i \in 1..Len(FeatsDe(chamada.camada)) : BemFormada(FeatsDe(chamada.camada)[i]))
    => /\ retorno.tipo = "ok"
       /\ retorno.valor.custom = TodasRowsEsperadas(FeatsDe(chamada.camada), chamada.camada)

\* float(s) of a decimal text with at most one fractional digit, in tenths;
\* 0 for any other text
float(s) ==
    LET neg == s # <<>> /\ Head(s) = "-"
        body == IF neg THEN Tail(s) ELSE s
        dots == {i \in 1..Len(body) : body[i] = "."}
        whole == IF dots = {} THEN body
                 ELSE SubSeq(body, 1, (CHOOSE i \in dots : TRUE) - 1)
        frac == IF dots = {} THEN <<"0">>
                ELSE SubSeq(body, (CHOOSE i \in dots : TRUE) + 1, Len(body))
        ok == Cardinality(dots) <= 1 /\ whole # <<>> /\ Len(frac) = 1
              /\ DigitsVal(whole, 1, 0) >= 0 /\ DigitsVal(frac, 1, 0) >= 0
        n == 10 * DigitsVal(whole, 1, 0) + DigitsVal(frac, 1, 0)
    IN IF ~ok THEN 0 ELSE IF neg THEN -n ELSE n

\* a Point whose two coordinates are text
PontoTextual(ft) ==
    /\ BemFormada(ft)
    /\ Get(ft.kv["geometry"], "type", JNull) = JStr(s_Point)
    /\ Get(ft.kv["geometry"], "coordinates", JNull).t = "list"
    /\ Len(ft.kv["geometry"].kv["coordinates"].xs) = 2
    /\ \A c \in {1, 2} : ft.kv["geometry"].kv["coordinates"].xs[c].t = "str"

\* C7: a Point whose coordinates are text (["-46.6", "-23.5"]) is kept, and
\* its row holds the numbers -46.6 and -23.5.
C7_TextCoordsAsNumbers ==
    (/\ Retornou("carregar_geojson_points")
     /\ TemFeatures(chamada.camada)
     /\ retorno.tipo = "ok")
    => \A i \in 1..Len(FeatsDe(chamada.camada)) :
          LET ft == FeatsDe(chamada.camada)[i]
          IN PontoTextual(ft) =>
                \E r \in 1..Len(retorno.valor.custom) :
                   /\ retorno.valor.lons[r]
                        = JFloat(float(ft.kv["geometry"].kv["coordinates"].xs[1].s))
                   /\ retorno.valor.lats[r]
                        = JFloat(float(ft.kv["geometry"].kv["coordinates"].xs[2].s))

\* C8: the parse of an existing key's file never raises, and a file that is
\* missing, is no JSON or has no feature list yields the empty lists.
C8_BadFileIsEmpty ==
    (Retornou("carregar_geojson_points") /\ chamada.camada \in GEOJSON_FILES)
    => /\ retorno.tipo = "ok"
       /\ ~TemFeatures(chamada.camada) => retorno = Ok(Listas(<<>>))

\* a JSON number in tenths
Decimos(v) == IF v.t = "int" THEN 10 * v.i ELSE v.d

\* a longitude within [-180, 180] and a latitude within [-90, 90], both numbers
CoordValida(lon, lat) ==
    /\ IsNumber(lon) /\ Decimos(lon) >= -1800 /\ Decimos(lon) <= 1800
    /\ IsNumber(lat) /\ Decimos(lat) >= -900 /\ Decimos(lat) <= 900

\* a Point feature with a coordinate pair
PontoComPar(ft) ==
    /\ Get(ft.kv["geometry"], "type", JNull) = JStr(s_Point)
    /\ Get(ft.kv["geometry"], "coordinates", JNull).t = "list"
    /\ Len(ft.kv["geometry"].kv["coordinates"].xs) >= 2

\* C12: of a file of well-formed features the parse returns, without
\* raising, only rows whose longitude and latitude are numbers within
\* [-180, 180] and [-90, 90]; a Point with other coordinates is dropped, and
\* every Point with a valid pair still has its row.
C12_CoordsInRange ==
    (/\ Retornou("carregar_geojson_points")
     /\ TemFeatures(chamada.camada)
     /\ \A i \in 1..Len(FeatsDe(chamada.camada)) : BemFormada(FeatsDe(chamada.camada)[i]))
    => /\ retorno.tipo = "ok"
       /\ \A r \in 1..Len(retorno.valor.custom) :
             CoordValida(retorno.valor.custom[r].lon, retorno.valor.custom[r].lat)
       /\ \A i \in 1..Len(FeatsDe(chamada.camada)) :
             LET ft == FeatsDe(chamada.camada)[i]
                 xs == ft.kv["geometry"].kv["coordinates"].xs
             IN (PontoComPar(ft) /\ CoordValida(xs[1], xs[2]))
                => \E r \in 1..Len(retorno.valor.custom) :
                      retorno.valor.custom[r]
                        = Registro(chamada.camada, PropsDe(ft), xs[1], xs[2])

\* the alias keys of each attribute of a row, in their priority order
Aliases ==
    [ nome |-> <<"nm_fantasia", "NM_FANTASIA", "nome_da_es", "NOME_DA_ES", "nome", "NOME">>,
      cnes |-> <<"cd_cnes", "CD_CNES", "cnes", "CNES">>,
      cd_mun |-> <<"cd_mun", "CD_MUN", "cod_mun", "COD_MUN">>,
      dsei |-> <<"dsei", "DSEI">>,
      polo |-> <<"polo_base", "POLO_BASE">>,
      cod_polo |-> <<"cod_polo", "COD_POLO">> ]

\* the value of the first alias present among the properties, "" when none is
PrimeiroPresente(props, keys) ==
    LET at == {i \in 1..Len(keys) : keys[i] \in DOMAIN props.kv}
    IN IF at = {} THEN JStr(<<>>)
       ELSE props.kv[keys[CHOOSE i \in at : \A j \in at : i <= j]]

\* the value of the first alias present with a value that is not empty, null,
\* zero or false, "" when there is none
PrimeiroNaoVazio(props, keys) ==
    LET at == {i \in 1..Len(keys) :
                  keys[i] \in DOMAIN props.kv /\ JTruthy(props.kv[keys[i]])}
    IN IF at = {} THEN JStr(<<>>)
       ELSE props.kv[keys[CHOOSE i \in at : \A j \in at : i <= j]]

\* the parse has returned the rows of a file whose features are all Points
\* with a coordinate pair: row i is the row of feature i
LeuSoPontos ==
    /\ Retornou("carregar_geojson_points")
    /\ TemFeatures(chamada.camada)
    /\ FeatsDe(chamada.camada) # <<>>
    /\ \A i \in 1..Len(FeatsDe(chamada.camada)) :
          BemFormada(FeatsDe(chamada.camada)[i]) /\ PontoComPar(FeatsDe(chamada.camada)[i])

\* C13 as stated: every attribute of a row is the value of the first alias
\* present among the feature's properties, and "" only when none is present.
C13_FirstPresentAlias ==
    LeuSoPontos
    => /\ retorno.tipo = "ok"
       /\ Len(retorno.valor.custom) = Len(FeatsDe(chamada.camada))
       /\ \A i \in 1..Len(FeatsDe(chamada.camada)), a \in DOMAIN Aliases :
             retorno.valor.custom[i][a]
               = PrimeiroPresente(PropsDe(FeatsDe(chamada.camada)[i]), Aliases[a])

\* C13 as amended: every attribute of a row is the value of the first alias,
\* in priority order, whose value is not empty, null, zero or false (also
\* when a later alias has such a value too), and "" when no alias has one.
C13_FirstNonEmptyAlias ==
    LeuSoPontos
    => /\ retorno.tipo = "ok"
       /\ Len(retorno.valor.custom) = Len(FeatsDe(chamada.camada))
       /\ \A i \in 1..Len(FeatsDe(chamada.camada)), a \in DOMAIN Aliases :
             retorno.valor.custom[i][a]
               = PrimeiroNaoVazio(PropsDe(FeatsDe(chamada.camada)[i]), Aliases[a])

\* a row was built from properties where two aliases of the name have a
\* value and where the first alias of the facility id is present but zero:
\* the name is the earlier alias's, the id the later alias's
C13_Witness ==
    /\ LeuSoPontos
    /\ \E i \in 1..Len(FeatsDe(chamada.camada)) :
          LET props == PropsDe(FeatsDe(chamada.camada)[i])
          IN /\ {"nm_fantasia", "nome", "cd_cnes", "CNES"} \subseteq DOMAIN props.kv
             /\ JTruthy(props.kv["nm_fantasia"]) /\ JTruthy(props.kv["nome"])
             /\ ~JTruthy(props.kv["cd_cnes"])
             /\ retorno.valor.custom[i].nome = props.kv["nm_fantasia"]
             /\ retorno.valor.custom[i].cnes = props.kv["CNES"]

-----------------------------------------------------------------------------
(* Figures of the forecast PNGs *)

\* stem.replace("ecmwf_prec_", "", 1) of a name matched by ecmwf_prec_*.png
ParteData(name) == SubSeq(name, Len(Prefix("prec")) + 1, Len(name) - Len(s_png))

\* sorted(datas): the dates of the ecmwf_prec_*.png names that strptime
\* takes (the names of a directory differ, so the set loses nothing)
listar_datas_disponiveis ==
    LET hits == Glob("base", Prefix("prec") \o <<"*">> \o s_png)
        valida(p) == strptime(ParteData(p.name)) # ValueError
        ok == SelectSeq(hits, valida)
    IN Vals(SortByKey([i \in 1..Len(ok) |->
                          [key |-> Codes(ParteData(ok[i].name)),
                           val |-> ParteData(ok[i].name)]]))

\* strftime("%d/%m/%Y") of strptime(data_iso), or ValueError
formatar_label_br(data_iso) ==
    LET dt == strptime(data_iso)
    IN IF dt = ValueError THEN ValueError
       ELSE Pad2(dt[3]) \o <<"/">> \o Pad2(dt[2]) \o <<"/">> \o Pad4(dt[1])

\* go.Figure()
FigVazia == Fig(<<>>, <<>>, <<>>, <<>>)

construir_figura_estatica(src, titulo) ==
    Fig(IF src # Vazio THEN <<src>> ELSE <<>>, <<>>, <<>>, titulo)

\* frames: one per date, holding the date's image
Frames(var_key, datas_iso) ==
    [i \in 1..Len(datas_iso) |->
        [name |-> datas_iso[i], source |-> carregar_imagem_base64(var_key, datas_iso[i])]]

construir_animacao(var_key, datas_iso, titulo) ==
    IF Len(datas_iso) = 0
    THEN Ok(construir_figura_estatica(Vazio, <<"Sem dados para animar">>))
    ELSE LET src0 == carregar_imagem_base64(var_key, datas_iso[1])
         IN \* the slider labels: formatar_label_br(f.name) of every frame
            IF \E i \in 1..Len(datas_iso) : formatar_label_br(datas_iso[i]) = ValueError
            THEN Raise("ValueError")
            ELSE Ok(Fig(IF src0 # Vazio THEN <<src0>> ELSE <<>>,
                        Frames(var_key, datas_iso), <<>>, titulo))

-----------------------------------------------------------------------------
(* The overlay map: construir_mapa_sobreposicao *)

\* the Choroplethmapbox trace of feature i (0-based) of the class layer, or
\* the exception its properties raise
TraceClasse(ft, i) ==
    IF ft.t # "dict" THEN Raise("AttributeError")
    ELSE LET got == Get(ft, "properties", EmptyDict)
             props == IF JTruthy(got) THEN got ELSE EmptyDict
         IN IF props.t # "dict" THEN Raise("AttributeError")
            ELSE Ok([tipo |-> "Choroplethmapbox",
                     label |-> Get(props, "label", [t |-> "classe", i |-> i]),
                     hex |-> Get(props, "hex", JStr(<<"#", "9", "9", "9", "9", "9", "9">>)),
                     id |-> Get(props, "ordem", JInt(i)),
                     feature |-> ft])

RECURSIVE TracesClasse(_, _, _)
TracesClasse(feats, i, traces) ==
    IF i > Len(feats) THEN Ok(traces)
    ELSE LET r == TraceClasse(feats[i], i - 1)
         IN IF r.tipo = "raise" THEN r
            ELSE TracesClasse(feats, i + 1, Append(traces, r.valor))

\* the forecast part: its traces and titulo_prev, or the exception raised.
\* Each step takes the value of the step before it: p, feats, the traces.
CamadaPrevisao(var_key, data_iso) ==
    LET titulo_prev(traces) ==
            IF var_key = "prec_acum"
            THEN Ok([traces |-> traces, titulo |-> <<"prec_acum">>])
            ELSE IF var_key \notin VAR_OPCOES THEN Raise("KeyError")
            ELSE IF ~Truthy(data_iso) THEN Ok([traces |-> traces, titulo |-> <<var_key>>])
            ELSE IF formatar_label_br(data_iso) = ValueError THEN Raise("ValueError")
            ELSE Ok([traces |-> traces,
                     titulo |-> <<var_key>> \o formatar_label_br(data_iso)])
        depoisDoLaco(traces) ==
            IF traces.tipo = "raise" THEN traces ELSE titulo_prev(traces.valor)
        laco(feats) ==
            IF feats.tipo = "raise" THEN feats
            ELSE depoisDoLaco(TracesClasse(feats.valor, 1, <<>>))
        carrega(p) ==
            IF p.tipo = "raise" THEN p
            ELSE laco(IF p.valor # NonePath
                      THEN carregar_geojson_poligonos_por_classe(p.valor, conteudoCamada)
                      ELSE Ok(<<>>))
    IN carrega(IF var_key # "prec_acum" THEN caminho_camadas_previsao(var_key, data_iso)
               ELSE caminho_camadas_previsao("prec_acum", None))

\* the facility part: its traces, or the exception raised
CamadaUnidades(camada_unidade) ==
    LET r == carregar_geojson_points(GeojsonFile(camada_unidade), camada_unidade)
    IN IF r.tipo = "raise" THEN r
       ELSE IF r.valor.custom = <<>> THEN Ok(<<>>)
       ELSE IF \E i \in 1..Len(r.valor.custom) :
                  ~IsNumber(r.valor.lats[i]) \/ ~IsNumber(r.valor.lons[i])
            THEN Raise("TypeError")
       ELSE Ok(<<Pontos(camada_unidade, r.valor.custom)>>)

construir_mapa_sobreposicao(var_key, data_iso, camada_unidade, mostrar_previsao, mostrar_unidades) ==
    LET figura(prev, uni) ==
            Ok(Fig(<<>>, <<>>, prev.traces \o uni,
                   prev.titulo
                   \o <<IF mostrar_unidades THEN Upper(camada_unidade) ELSE "(desligadas)">>))
        unidadesDepois(prev, uni) ==
            IF uni.tipo = "raise" THEN uni ELSE figura(prev, uni.valor)
        previsaoAntes(prev) ==
            IF prev.tipo = "raise" THEN prev
            ELSE unidadesDepois(prev.valor,
                                IF mostrar_unidades THEN CamadaUnidades(camada_unidade)
                                ELSE Ok(<<>>))
    IN previsaoAntes(IF mostrar_previsao THEN CamadaPrevisao(var_key, data_iso)
                     ELSE Ok([traces |-> <<>>, titulo |-> <<"(desligada)">>]))

-----------------------------------------------------------------------------
(* The callbacks *)

atualizar_mapa_previsao(data_iso, var_key, modo) ==
    IF var_key = NoneKey THEN Ok(FigVazia)
    ELSE IF var_key \notin VAR_OPCOES THEN Raise("KeyError")
    ELSE IF var_key = "prec_acum"
         THEN Ok(construir_figura_estatica(carregar_imagem_base64("prec_acum", None),
                                           <<var_key>>))
    ELSE IF modo = "dia"
         THEN IF data_iso = None THEN Ok(FigVazia)
              ELSE IF formatar_label_br(data_iso) = ValueError THEN Raise("ValueError")
              ELSE Ok(construir_figura_estatica(
                          carregar_imagem_base64(var_key, data_iso),
                          <<var_key>> \o formatar_label_br(data_iso)))
    ELSE construir_animacao(var_key, DATAS, <<var_key, "(animacao)">>)

atualizar_mapa_unidades(camada_key) ==
    IF camada_key = NoneKey THEN Ok(FigVazia)
    ELSE construir_mapa_unidades(camada_key)

\* check_values is the set of the boxes ticked, or {NoneKey} for None
atualizar_overlay(data_iso, var_key, camada_unidade, check_values) ==
    construir_mapa_sobreposicao(var_key, data_iso,
        IF camada_unidade = NoneKey THEN "upa" ELSE camada_unidade,
        "prev" \in check_values, "uni" \in check_values)

-----------------------------------------------------------------------------
(* Specification of the panel: the callbacks over a changing directory *)

\* the PNGs and the class layers of the panel's directories
NomesPNGPainel ==
    { NomePNG("prec", <<2025, 11, 5>>), NomePNG("prec", <<2025, 11, 10>>),
      NomePNG("tmin", <<2025, 11, 5>>),
      NomePNGAcum(<<2025, 11, 1>>, <<2025, 11, 10>>) }

NomesCamadasPainel ==
    { NomeCamada(s_prec, <<2025, 11, 5>>), NomeAcum(<<2025, 11, 1>>, <<2025, 11, 10>>) }

\* a facility file of one point, and a class layer of two classes
UnidadesPainel ==
    Texto(JDict([features |-> JList(<<
        FeatPonto(s_Point, JList(<<JFloat(-466), JFloat(-235)>>),
                  JDict([nm_fantasia |-> JStr(<<"a">>), cd_cnes |-> JInt(7)]))>>)]))

CamadaPainel ==
    Texto(JDict([features |-> JList(<<FeatClasse("b", JInt(2)), FeatClasse("a", JInt(1))>>)]))

\* the panel starts only when DATAS is not empty
Init ==
    /\ camadasExiste \in BOOLEAN
    /\ dirCamadas \in Listagens(NomesCamadasPainel, 1)
    /\ ~camadasExiste => dirCamadas = <<>>
    /\ dirBase \in Listagens(NomesPNGPainel, MaxArquivos)
    /\ DATAS = listar_datas_disponiveis
    /\ DATAS # <<>>
    /\ \E k \in GEOJSON_FILES, c \in {UnidadesPainel, Ausente} :
          unidades = [SemUnidades EXCEPT ![k] = c]
    /\ conteudoCamada = CamadaPainel
    /\ fase = "ocioso"
    /\ chamada = SemChamada
    /\ retorno = SemRetorno

\* what the controls can hold: an option, or None when cleared
ValoresData == {DATAS[i] : i \in 1..Len(DATAS)} \cup {None}
ValoresVar == VAR_OPCOES \cup {NoneKey}
ValoresModo == {"dia", "anim", NoneKey}
ValoresUnidade == GEOJSON_FILES \cup {NoneKey}
ValoresCheck == SUBSET {"prev", "uni"} \cup {{NoneKey}}

AtualizarMapaPrevisao ==
    /\ fase = "ocioso"
    /\ \E data_iso \in ValoresData, var_key \in ValoresVar, modo \in ValoresModo :
          /\ chamada' = [op |-> "atualizar_mapa_previsao", data_iso |-> data_iso,
                         var_key |-> var_key, modo |-> modo]
          /\ retorno' = atualizar_mapa_previsao(data_iso, var_key, modo)
    /\ fase' = "retornou"
    /\ UNCHANGED fixos

AtualizarMapaUnidades ==
    /\ fase = "ocioso"
    /\ \E camada_key \in ValoresUnidade :
          /\ chamada' = [op |-> "atualizar_mapa_unidades", camada |-> camada_key]
          /\ retorno' = atualizar_mapa_unidades(camada_key)
    /\ fase' = "retornou"
    /\ UNCHANGED fixos

AtualizarOverlay ==
    /\ fase = "ocioso"
    /\ \E data_iso \in ValoresData, var_key \in ValoresVar,
          camada_unidade \in ValoresUnidade, check_values \in ValoresCheck :
          /\ chamada' = [op |-> "atualizar_overlay", data_iso |-> data_iso,
                         var_key |-> var_key, camada |-> camada_unidade,
                         check_values |-> check_values]
          /\ retorno' = atualizar_overlay(data_iso, var_key, camada_unidade, check_values)
    /\ fase' = "retornou"
    /\ UNCHANGED fixos

\* a PNG leaves BASE_DIR between two requests; DATAS keeps its date
ApagarPNG ==
    /\ fase = "ocioso"
    /\ \E i \in 1..Len(dirBase) :
          dirBase' = SubSeq(dirBase, 1, i - 1) \o SubSeq(dirBase, i + 1, Len(dirBase))
    /\ UNCHANGED <<camadasExiste, dirCamadas, unidades, conteudoCamada, DATAS,
                   fase, chamada, retorno>>

Next ==
    \/ AtualizarMapaPrevisao
    \/ AtualizarMapaUnidades
    \/ AtualizarOverlay
    \/ ApagarPNG
    \/ Proxima

Spec == Init /\ [][Next]_vars

\* one of the callbacks has returned
RetornouCallback ==
    /\ fase = "retornou"
    /\ chamada.op \in {"atualizar_mapa_previsao", "atualizar_mapa_unidades",
                       "atualizar_overlay"}

\* an asset the request draws on is missing: the PNG of the variable and
\* date, the facility file of the layer, or every class layer
AtivoAusente ==
    CASE chamada.op = "atualizar_mapa_previsao" ->
           chamada.var_key \in VAR_OPCOES
           /\ carregar_imagem_base64(chamada.var_key, chamada.data_iso) = Vazio
      [] chamada.op = "atualizar_mapa_unidades" ->
           chamada.camada # NoneKey /\ unidades[chamada.camada] = Ausente
      [] chamada.op = "atualizar_overlay" ->
           \/ dirCamadas = <<>>
           \/ unidades[IF chamada.camada = NoneKey THEN "upa" ELSE chamada.camada] = Ausente

\* C9: whatever the controls hold (None included), when the PNG, the
\* facility file or the class layer is missing the callback returns a figure
\* and does not raise.
C9_MissingAssetNeverRaises ==
    (RetornouCallback /\ AtivoAusente) => retorno.tipo = "ok"

====
